---- MODULE Spec2Model ----
(***************************************************************************)
(* A model of CVDiff_v5.py: the XML normaliser and comparison, the         *)
(* snapshot indexer, the date-folder resolver, the selection of the prior  *)
(* weekday report, compare_and_update and the __main__ call sequence.      *)
(*                                                                         *)
(* Strings are sequences of one-character strings, so that substring       *)
(* tests, strip(), lexicographic order and strptime/strftime are computed  *)
(* character by character as Python computes them.                         *)
(***************************************************************************)
EXTENDS Integers, Sequences, FiniteSets, TLC

VARIABLES
    tree,        \* the listing of backup_base_path, or NoPath
    reports,     \* the report folder: [category, weekday] -> file or NoFile
    today,       \* datetime.now().strftime('%a') of the run in progress
    selector,    \* report_type of __main__: composite, substation or both
    pc,          \* the position of __main__
    runs,        \* the runs of compare_and_update made so far, oldest first
    docA,        \* compare_xml_files: the old document
    docB,        \* compare_xml_files: the new document
    cmp,         \* compare_xml_files: its result, or "none" before the call
    found        \* find_latest_diffreport_csv: its result, or "none" before the call

vars == <<tree, reports, today, selector, pc, runs, docA, docB, cmp, found>>

(***************************************************************************)
(* Bounds of the model.                                                    *)
(***************************************************************************)
\* compare_and_update is run at most MaxReruns times on an unchanged backup tree.
MaxReruns == 2
\* A category subfolder holds at most MaxFiles files.
MaxFiles == 2
\* A report folder that starts empty sees at most MaxRuns runs.
MaxRuns == 3

(***************************************************************************)
(* Strings.                                                                *)
(***************************************************************************)
\* The element of a one-element set.  Binding a value as the element of a set,
\* {e(v) : v \in {expr}}, has TLC compute expr once where a LET computes it at
\* every use.
Only(S) == CHOOSE x \in S : TRUE

\* None where a string is expected, and None where a datetime is expected.
NoneStr == <<"None">>
NoDate == <<>>

\* The characters the model uses, in code point order.
AsciiOrder ==
    <<"\t", "\n", " ", "*", "-", "/",
      "0", "1", "2", "3", "4", "5", "6", "7", "8", "9",
      "A", "B", "C", "D", "E", "F", "G", "H", "I", "J", "K", "L", "M",
      "N", "O", "P", "Q", "R", "S", "T", "U", "V", "W", "X", "Y", "Z",
      "_",
      "a", "b", "c", "d", "e", "f", "g", "h", "i", "j", "k", "l", "m",
      "n", "o", "p", "q", "r", "s", "t", "u", "v", "w", "x", "y", "z">>

\* ord(c), up to the characters the model leaves out.
OrdTable ==
    [c \in {AsciiOrder[i] : i \in 1..Len(AsciiOrder)} |->
        CHOOSE i \in 1..Len(AsciiOrder) : AsciiOrder[i] = c]
Ord(c) == OrdTable[c]

Digits == {"0", "1", "2", "3", "4", "5", "6", "7", "8", "9"}
Whitespace == {" ", "\t", "\n"}
HexDigits == Digits \cup {"a", "b", "c", "d", "e", "f", "A", "B", "C", "D", "E", "F"}

DigitVal(c) == Ord(c) - Ord("0")
DigitChar(n) == AsciiOrder[Ord("0") + n]

\* Python's str < str: lexicographic by code point, a proper prefix first.
RECURSIVE StrLessFrom(_, _, _)
StrLessFrom(s, t, i) ==
    IF i > Len(t) THEN FALSE
    ELSE IF i > Len(s) THEN TRUE
    ELSE IF s[i] = t[i] THEN StrLessFrom(s, t, i + 1)
    ELSE Ord(s[i]) < Ord(t[i])

StrLess(s, t) == StrLessFrom(s, t, 1)

\* sub in s
Contains(s, sub) ==
    \E i \in 0..(Len(s) - Len(sub)) :
        \A j \in 1..Len(sub) : s[i + j] = sub[j]

\* s.strip()
Strip(s) ==
    LET keep == {i \in 1..Len(s) : s[i] \notin Whitespace}
    IN  IF keep = {} THEN <<>>
        ELSE LET lo == CHOOSE i \in keep : \A j \in keep : i <= j
                 hi == CHOOSE i \in keep : \A j \in keep : j <= i
             IN  SubSeq(s, lo, hi)

\* s.split(sep) for a one-character sep: the fields between the separators.
RECURSIVE Split(_, _)
Split(s, sep) ==
    IF \A i \in 1..Len(s) : s[i] # sep THEN <<s>>
    ELSE LET k == CHOOSE i \in 1..Len(s) : s[i] = sep /\ \A j \in 1..(i - 1) : s[j] # sep
         IN  <<SubSeq(s, 1, k - 1)>> \o Split(SubSeq(s, k + 1, Len(s)), sep)

AllDigits(s) == \A i \in 1..Len(s) : s[i] \in Digits

RECURSIVE ToInt(_)
ToInt(s) == IF s = <<>> THEN 0 ELSE 10 * ToInt(SubSeq(s, 1, Len(s) - 1)) + DigitVal(s[Len(s)])

\* n as decimal digits, zero-padded to the given width.
RECURSIVE Pad(_, _)
Pad(n, width) ==
    IF width = 0 THEN <<>> ELSE Pad(n \div 10, width - 1) \o <<DigitChar(n % 10)>>

(***************************************************************************)
(* Dates: datetime.strptime and strftime.  A datetime is <<year, month,    *)
(* day>>; a string that strptime rejects parses to NoDate.                 *)
(***************************************************************************)
IsLeap(y) == (y % 4 = 0 /\ y % 100 # 0) \/ y % 400 = 0

DaysInMonth(y, m) ==
    IF m = 2 THEN (IF IsLeap(y) THEN 29 ELSE 28)
    ELSE IF m \in {4, 6, 9, 11} THEN 30 ELSE 31

\* The datetime constructor: ValueError outside the calendar.
MkDate(y, m, d) ==
    IF y >= 1 /\ m \in 1..12 /\ d >= 1 /\ d <= DaysInMonth(y, m) THEN <<y, m, d>> ELSE NoDate

\* %d and %m take one or two digits, %Y exactly four.
FieldsOk(yr, mo, dy) ==
    /\ AllDigits(yr) /\ Len(yr) = 4
    /\ AllDigits(mo) /\ Len(mo) \in 1..2
    /\ AllDigits(dy) /\ Len(dy) \in 1..2

\* datetime.strptime(s, '%d/%m/%Y')
strptime_dmy(s) ==
    LET f == Split(s, "/")
    IN  IF Len(f) = 3 /\ FieldsOk(f[3], f[2], f[1])
        THEN MkDate(ToInt(f[3]), ToInt(f[2]), ToInt(f[1]))
        ELSE NoDate

\* datetime.strptime(s, '%Y-%m-%d')
strptime_iso(s) ==
    LET f == Split(s, "-")
    IN  IF Len(f) = 3 /\ FieldsOk(f[1], f[2], f[3])
        THEN MkDate(ToInt(f[1]), ToInt(f[2]), ToInt(f[3]))
        ELSE NoDate

\* datetime.strptime(s, '%Y%m%d') on a name that matched ^\d{8}$
strptime_ymd(s) ==
    MkDate(ToInt(SubSeq(s, 1, 4)), ToInt(SubSeq(s, 5, 6)), ToInt(SubSeq(s, 7, 8)))

\* dt.strftime('%Y-%m-%d')
strftime_iso(dt) == Pad(dt[1], 4) \o <<"-">> \o Pad(dt[2], 2) \o <<"-">> \o Pad(dt[3], 2)

\* datetime > datetime
DateGreater(a, b) ==
    \/ a[1] > b[1]
    \/ a[1] = b[1] /\ a[2] > b[2]
    \/ a[1] = b[1] /\ a[2] = b[2] /\ a[3] > b[3]

(***************************************************************************)
(* XML documents.  An element is a record of its tag, its attributes (one  *)
(* opaque value), its text, its tail and its children; text None and text  *)
(* '' are both <<>>, which is how the code and the serialiser treat them.  *)
(* A document is the result of ET.parse: ok is FALSE when ET.parse raises. *)
(***************************************************************************)
Elem(tag, text, tail, kids) ==
    [tag |-> tag, attrib |-> "", text |-> text, tail |-> tail, kids |-> kids]

Leaf(tag, text) == Elem(tag, text, <<>>, <<>>)

ParsedDoc(root) == [ok |-> TRUE, root |-> <<root>>]
BrokenDoc == [ok |-> FALSE, root |-> <<>>]

\* element.find(tag): the first direct child with that tag, as <<child>>, or <<>>.
Find(element, tag) ==
    LET hits == {i \in 1..Len(element.kids) : element.kids[i].tag = tag}
    IN  IF hits = {} THEN <<>>
        ELSE <<element.kids[CHOOSE i \in hits : \A j \in hits : i <= j]>>

TEMP_ == <<"T", "E", "M", "P", "_">>
STAR == <<"*">>

get_picture_name_from_xml_skip_filter(xml_file) ==
    IF ~xml_file.ok THEN NoneStr
    ELSE LET header == Find(xml_file.root[1], "Header")
         IN  IF header = <<>> THEN NoneStr
             ELSE LET name_element == Find(header[1], "Name")
                  IN  IF name_element # <<>> /\ name_element[1].text # <<>>
                      THEN Strip(name_element[1].text)
                      ELSE NoneStr

get_picture_name_from_xml(xml_file) ==
    IF ~xml_file.ok THEN NoneStr
    ELSE LET header == Find(xml_file.root[1], "Header")
         IN  IF header = <<>> THEN NoneStr
             ELSE LET name_element == Find(header[1], "Name")
                  IN  IF name_element # <<>> /\ name_element[1].text # <<>>
                      THEN LET name == Strip(name_element[1].text)
                           IN  IF ~Contains(name, TEMP_) /\ ~Contains(name, STAR)
                               THEN name
                               ELSE NoneStr
                      ELSE NoneStr

ignore_tags == {"Id", "Link"}

RECURSIVE KeptKids(_, _)
RECURSIVE normalize_xml_element(_)

\* The concatenation of the one-or-zero element sequences in results, from index i.
KeptKids(results, i) ==
    IF i > Len(results) THEN <<>> ELSE results[i] \o KeptKids(results, i + 1)

\* None is <<>>, an element e is <<e>>.
normalize_xml_element(element) ==
    IF element.tag \in ignore_tags THEN <<>>
    ELSE <<[element EXCEPT !.kids =
              KeptKids([i \in 1..Len(element.kids) |->
                           normalize_xml_element(element.kids[i])], 1)]>>

GUID_PLACEHOLDER ==
    <<"G", "U", "I", "D", "_", "P", "L", "A", "C", "E", "H", "O", "L", "D", "E", "R">>

\* guid_pattern.fullmatch(s): 8-4-4-4-12 hexadecimal digits.
IsGuid(s) ==
    /\ Len(s) = 36
    /\ \A i \in 1..36 :
          IF i \in {9, 14, 19, 24} THEN s[i] = "-" ELSE s[i] \in HexDigits

RECURSIVE remove_guid_from_value_tags(_)
remove_guid_from_value_tags(root) ==
    [root EXCEPT
        !.text = IF root.tag = "Value" /\ root.text # <<>> /\ IsGuid(Strip(root.text))
                 THEN GUID_PLACEHOLDER ELSE root.text,
        !.kids = [i \in 1..Len(root.kids) |-> remove_guid_from_value_tags(root.kids[i])]]

\* ET.tostring: a string is a sequence of tokens, a markup token per tag and a
\* character token per character of text and tail.
CharTokens(s) == [i \in 1..Len(s) |-> <<"c", s[i]>>]

RECURSIVE tostring(_)
RECURSIVE KidsToString(_, _)
tostring(e) ==
    (IF e.text = <<>> /\ e.kids = <<>>
     THEN <<(<<"<", e.tag, e.attrib, " />">>)>>
     ELSE <<(<<"<", e.tag, e.attrib, ">">>)>> \o CharTokens(e.text)
          \o KidsToString(e.kids, 1) \o <<(<<"</", e.tag, ">">>)>>)
    \o CharTokens(e.tail)

KidsToString(kids, i) ==
    IF i > Len(kids) THEN <<>> ELSE tostring(kids[i]) \o KidsToString(kids, i + 1)

IsSpaceToken(t) == t[1] = "c" /\ t[2] \in Whitespace

\* re.sub(r'\s+', ' ', s)
RECURSIVE CollapseSpace(_)
CollapseSpace(s) ==
    IF s = <<>> THEN <<>>
    ELSE IF IsSpaceToken(s[1])
         THEN IF Len(s) > 1 /\ IsSpaceToken(s[2])
              THEN CollapseSpace(Tail(s))
              ELSE <<(<<"c", " ">>)>> \o CollapseSpace(Tail(s))
         ELSE <<s[1]>> \o CollapseSpace(Tail(s))

\* s.strip() of a token string
StripTokens(s) ==
    LET keep == {i \in 1..Len(s) : ~IsSpaceToken(s[i])}
    IN  IF keep = {} THEN <<>>
        ELSE SubSeq(s, CHOOSE i \in keep : \A j \in keep : i <= j,
                       CHOOSE i \in keep : \A j \in keep : j <= i)

\* The comparable string as <<string>>, or <<>> for None (ET.parse raised, or
\* ET.tostring raised on the None that normalising an ignored root returns).
xml_to_comparable_string(xml_file) ==
    IF ~xml_file.ok THEN <<>>
    ELSE LET root == remove_guid_from_value_tags(xml_file.root[1])
             normalized_root == normalize_xml_element(root)
         IN  IF normalized_root = <<>> THEN <<>>
             ELSE <<StripTokens(CollapseSpace(tostring(normalized_root[1])))>>

compare_xml_files(old_xml, new_xml) ==
    LET old_str == xml_to_comparable_string(old_xml)
        new_str == xml_to_comparable_string(new_xml)
    IN  IF old_str = <<>> \/ new_str = <<>> THEN "DIFFERENT"
        ELSE IF old_str = new_str THEN "SAME"
        ELSE "DIFFERENT"

(***************************************************************************)
(* Report files.  A file is the CSV text as written: its header and its    *)
(* rows, every field a string ('' is <<>>).  A DataFrame holds the values  *)
(* read_csv makes of them: a field that is one of pandas' NA strings reads *)
(* as NaN.  (The model holds no name or date made of digits alone, which   *)
(* read_csv would read as a number.)                                       *)
(***************************************************************************)
weekdays == <<"Mon", "Tue", "Wed", "Thu", "Fri", "Sat", "Sun">>
Categories == {"Composite", "Substation"}

NaN == <<"nan">>
isna(v) == v = NaN \/ v = NoneStr

NoFile == [exists |-> FALSE, cols |-> {}, rows |-> <<>>]
CsvFile(cols, rows) == [exists |-> TRUE, cols |-> cols, rows |-> rows]
Row(name, date, result) == [name |-> name, date |-> date, result |-> result]

\* pandas' default na_values that the model's characters can spell.
na_values ==
    { <<>>, <<"N", "A">>, <<"N", "/", "A">>, <<"n", "/", "a">>,
      <<"N", "U", "L", "L">>, <<"n", "u", "l", "l">>, <<"N", "a", "N">>,
      <<"n", "a", "n">>, <<"-", "N", "a", "N">>, <<"-", "n", "a", "n">>,
      <<"N", "o", "n", "e">> }

read_field(s) == IF s \in na_values THEN NaN ELSE s

\* pd.read_csv(path), then df.columns.str.strip()
read_csv(file) ==
    [cols |-> file.cols,
     rows |-> [i \in 1..Len(file.rows) |->
                 Row(read_field(file.rows[i].name), read_field(file.rows[i].date),
                     file.rows[i].result)]]

\* df.to_csv(path, index=False): a missing value is written as the empty field.
to_csv(df) ==
    CsvFile(df.cols,
            [i \in 1..Len(df.rows) |->
                Row(IF isna(df.rows[i].name) THEN <<>> ELSE df.rows[i].name,
                    IF isna(df.rows[i].date) THEN <<>> ELSE df.rows[i].date,
                    df.rows[i].result)])

\* Series.max() of strings: the greatest by code point order; NaN of none.
RECURSIVE StrMax(_)
StrMax(S) ==
    IF S = {} THEN NaN
    ELSE Only({ Only({ IF rest = NaN \/ StrLess(rest, s) THEN s ELSE rest
                       : rest \in {StrMax(S \ {s})} })
                : s \in {CHOOSE x \in S : TRUE} })

\* The parse of lines 90-93, NoDate when strptime raises.
parse_max_date(max_date_str) ==
    IF Contains(max_date_str, <<"/">>) THEN strptime_dmy(max_date_str)
    ELSE strptime_iso(max_date_str)

\* The loop of find_latest_diffreport_csv from weekday i on, with the latest_csv
\* and latest_date found so far; the result is latest_csv, a weekday or "None".
\* max_date_str of line 87 for a weekday's file, NaN when the file is absent, has
\* no Last_Update_Date column or holds no date.
max_date_str_of(file) ==
    IF file.exists /\ "Last_Update_Date" \in file.cols
    THEN Only({ StrMax({df.rows[k].date : k \in 1..Len(df.rows)} \ {NaN})
                : df \in {read_csv(file)} })
    ELSE NaN

RECURSIVE find_latest_from(_, _, _, _)
find_latest_from(folder, i, latest_csv, latest_date) ==
    IF i > Len(weekdays) THEN latest_csv
    ELSE Only({ Only({
            IF /\ ~isna(max_date_str)
               /\ max_date # NoDate
               /\ (latest_date = NoDate \/ DateGreater(max_date, latest_date))
            THEN find_latest_from(folder, i + 1, weekdays[i], max_date)
            ELSE find_latest_from(folder, i + 1, latest_csv, latest_date)
          : max_date \in {IF isna(max_date_str) THEN NoDate
                          ELSE parse_max_date(max_date_str)} })
          : max_date_str \in {max_date_str_of(folder[weekdays[i]])} })

\* folder: the report files of one category (base_filename), by weekday.
find_latest_diffreport_csv(folder) == find_latest_from(folder, 1, "None", NoDate)

(***************************************************************************)
(* The backup tree.  backup_base_path is a listing of items (in the order  *)
(* os.listdir gives them); an item has a name, is a directory or not, and  *)
(* holds, per category, a subfolder: a listing of files, or no subfolder.  *)
(* A file is an index into FilePool, which gives its extension and the     *)
(* document it holds.                                                      *)
(***************************************************************************)
NoFolder == [exists |-> FALSE, files |-> <<>>]
Folder(files) == [exists |-> TRUE, files |-> files]
Item(name, isdir, composite, substation) ==
    [name |-> name, isdir |-> isdir,
     sub |-> [c \in Categories |-> IF c = "Composite" THEN composite ELSE substation]]
NoPath == [exists |-> FALSE, items |-> <<>>]
Path(items) == [exists |-> TRUE, items |-> items]

\* A sequence of strings in ascending order: list.sort().
RECURSIVE SortStrings(_)
SortStrings(S) ==
    IF S = {} THEN <<>>
    ELSE LET least == CHOOSE s \in S : \A t \in S : ~StrLess(t, s)
         IN  <<least>> \o SortStrings(S \ {least})

get_all_date_folders(backup) ==
    IF ~backup.exists THEN <<>>
    ELSE SortStrings({backup.items[i].name : i \in
            {k \in 1..Len(backup.items) :
                /\ backup.items[k].isdir
                /\ Len(backup.items[k].name) = 8
                /\ AllDigits(backup.items[k].name)
                /\ strptime_ymd(backup.items[k].name) # NoDate}})

find_backup_folder(date_str, report_type, backup) ==
    LET item == backup.items[CHOOSE k \in 1..Len(backup.items) :
                                backup.items[k].name = date_str]
    IN  IF report_type \in Categories /\ item.sub[report_type].exists
        THEN item.sub[report_type]
        ELSE NoFolder

\* The documents of the model's files: a root with a Header/Name, an Id and a Text.
View(root_tag, name_text, id_text, body_text) ==
    ParsedDoc(Elem(root_tag, <<>>, <<>>,
        << Elem("Header", <<"\n">>, <<"\n">>, <<Leaf("Name", name_text)>>),
           Leaf("Id", id_text),
           Leaf("Text", body_text) >>))

FilePool ==
    << [ext |-> ".xml", doc |-> View("View", <<"A">>, <<"1">>, <<"x">>)],
       [ext |-> ".xml", doc |-> View("View", <<"A">>, <<"2">>, <<"x">>)],
       [ext |-> ".xml", doc |-> View("View", <<"A">>, <<"1">>, <<"y">>)],
       [ext |-> ".xml", doc |-> View("Id", <<"B">>, <<"1">>, <<"x">>)],
       [ext |-> ".xml", doc |-> View("View", <<"N", "A">>, <<"1">>, <<"x">>)],
       [ext |-> ".xml", doc |-> View("View", TEMP_ \o <<"A">>, <<"1">>, <<"x">>)],
       [ext |-> ".xml", doc |-> View("View", <<"A", "*">>, <<"1">>, <<"x">>)],
       [ext |-> ".xml", doc |-> View("View", <<" ", "A", "\n">>, <<"3">>, <<"z">>)],
       [ext |-> ".xml", doc |-> BrokenDoc],
       [ext |-> ".txt", doc |-> View("View", <<"A">>, <<"1">>, <<"y">>)],
       [ext |-> ".xml", doc |-> ParsedDoc(Leaf("View", <<"x">>))] >>

\* What the functions of the XML layer return on the model's files, computed once.
PictureNames == [f \in 1..Len(FilePool) |-> get_picture_name_from_xml(FilePool[f].doc)]
Comparisons ==
    [old_xml \in 1..Len(FilePool), new_xml \in 1..Len(FilePool) |->
        compare_xml_files(FilePool[old_xml].doc, FilePool[new_xml].doc)]

(***************************************************************************)
(* The snapshot indexer.  A dict is a sequence of [name, path] entries in  *)
(* insertion order, no name twice.                                         *)
(***************************************************************************)
Keys(dict) == {dict[i].name : i \in 1..Len(dict)}
Get(dict, name) == dict[CHOOSE i \in 1..Len(dict) : dict[i].name = name].path

\* dict[name] = path
Put(dict, name, path) ==
    IF name \in Keys(dict)
    THEN [i \in 1..Len(dict) |->
            IF dict[i].name = name THEN [name |-> name, path |-> path] ELSE dict[i]]
    ELSE Append(dict, [name |-> name, path |-> path])

RECURSIVE index_from(_, _, _)
index_from(files, i, xml_dict) ==
    IF i > Len(files) THEN xml_dict
    ELSE LET pic_name == PictureNames[files[i]]
         IN  IF FilePool[files[i]].ext = ".xml" /\ pic_name # NoneStr /\ pic_name # <<>>
             THEN index_from(files, i + 1, Put(xml_dict, pic_name, files[i]))
             ELSE index_from(files, i + 1, xml_dict)

get_all_xml_files_from_folder(folder) ==
    IF ~folder.exists THEN <<>> ELSE index_from(folder.files, 1, <<>>)

(***************************************************************************)
(* compare_and_update.                                                     *)
(***************************************************************************)
convert_date(date_str) ==
    IF isna(date_str) THEN NoneStr
    ELSE Only({ IF dmy # NoDate THEN strftime_iso(dmy)
                ELSE Only({ IF iso # NoDate THEN strftime_iso(iso) ELSE NoneStr
                            : iso \in {strptime_iso(date_str)} })
                : dmy \in {strptime_dmy(date_str)} })

\* Lines 167-189: the DataFrame df_master made of the old report, or the empty one.
load_master(folder, old_report_file) ==
    IF old_report_file # "None"
    THEN LET df == read_csv(folder[old_report_file])
             cols == IF "PIC_Name" \in df.cols
                     THEN (df.cols \ {"PIC_Name"}) \cup {"Picture Name"}
                     ELSE df.cols
         IN  [cols |-> cols,
              rows |-> IF "Last_Update_Date" \in cols
                       THEN [i \in 1..Len(df.rows) |->
                               [df.rows[i] EXCEPT !.date = convert_date(df.rows[i].date)]]
                       ELSE df.rows]
    ELSE [cols |-> {"Picture Name", "Last_Update_Date", "Diff_Result"}, rows |-> <<>>]

\* df_master[df_master['Picture Name'] == pic_name]['Last_Update_Date'].values
master_dates(df_master, pic_name) ==
    LET hits == {i \in 1..Len(df_master.rows) : df_master.rows[i].name = pic_name}
    IN  [k \in 1..Cardinality(hits) |->
            df_master.rows[CHOOSE i \in hits :
                              Cardinality({j \in hits : j < i}) = k - 1].date]

\* Whether the lookup of lines 218 and 243 raises KeyError.
lookup_raises(df_master) ==
    "Picture Name" \notin df_master.cols \/ "Last_Update_Date" \notin df_master.cols

carried_date(df_master, pic_name, old_date_display) ==
    Only({ IF Len(old_date) > 0 THEN old_date[1] ELSE old_date_display
           : old_date \in {master_dates(df_master, pic_name)} })

\* new_record with an UPDATED record given the carried date instead of new_date.
new_record_updated_carries(pic_name, new_xml, old_xml_dict, df_master, old_date_display, new_date_display) ==
    IF pic_name \in Keys(old_xml_dict)
    THEN IF Comparisons[Get(old_xml_dict, pic_name), new_xml] = "SAME"
         THEN Row(pic_name, carried_date(df_master, pic_name, old_date_display), "NIL")
         ELSE Row(pic_name, carried_date(df_master, pic_name, old_date_display), "UPDATED")
    ELSE Row(pic_name, new_date_display, "NEW")

\* new_record with a NEW record given the carried date instead of new_date.
new_record_new_carries(pic_name, new_xml, old_xml_dict, df_master, old_date_display, new_date_display) ==
    IF pic_name \in Keys(old_xml_dict)
    THEN IF Comparisons[Get(old_xml_dict, pic_name), new_xml] = "SAME"
         THEN Row(pic_name, carried_date(df_master, pic_name, old_date_display), "NIL")
         ELSE Row(pic_name, new_date_display, "UPDATED")
    ELSE Row(pic_name, carried_date(df_master, pic_name, old_date_display), "NEW")

\* The record the loop of lines 210-238 appends for an entry of new_xml_dict.
new_record(pic_name, new_xml, old_xml_dict, df_master, old_date_display, new_date_display) ==
    IF pic_name \in Keys(old_xml_dict)
    THEN IF Comparisons[Get(old_xml_dict, pic_name), new_xml] = "SAME"
         THEN Row(pic_name, carried_date(df_master, pic_name, old_date_display), "NIL")
         ELSE Row(pic_name, new_date_display, "UPDATED")
    ELSE Row(pic_name, new_date_display, "NEW")

\* The record the loop of lines 240-249 appends for an entry of old_xml_dict.
deleted_record(pic_name, df_master, old_date_display) ==
    Row(pic_name, carried_date(df_master, pic_name, old_date_display), "DELETED")

RECURSIVE SelectSeq2(_, _)
SelectSeq2(seq, keep) ==
    IF seq = <<>> THEN <<>>
    ELSE (IF Head(seq).name \in keep THEN <<Head(seq)>> ELSE <<>>) \o SelectSeq2(Tail(seq), keep)

\* df.sort_values(by='Picture Name', ascending=True)
RECURSIVE sort_values(_)
sort_values(rows) ==
    IF Len(rows) = 0 THEN <<>>
    ELSE LET k == CHOOSE i \in 1..Len(rows) :
                     /\ \A j \in 1..Len(rows) : ~StrLess(rows[j].name, rows[i].name)
                     /\ \A j \in 1..(i - 1) : StrLess(rows[i].name, rows[j].name)
         IN  <<rows[k]>> \o sort_values(SubSeq(rows, 1, k - 1) \o SubSeq(rows, k + 1, Len(rows)))

\* A run that returns before it compares anything.
Aborted(outcome) ==
    [outcome |-> outcome, old_date |-> NoneStr, new_date |-> NoneStr,
     old_report_file |-> "None", old_xml_dict |-> <<>>, new_xml_dict |-> <<>>,
     df_new |-> <<>>, updated_count |-> 0]

\* Lines 204-249: the records of new_data, in the order the two loops append them.
compare_folders(old_xml_dict, new_xml_dict, df_master, old_date_display, new_date_display) ==
    LET gone == SelectSeq2(old_xml_dict, Keys(old_xml_dict) \ Keys(new_xml_dict))
    IN  [i \in 1..Len(new_xml_dict) |->
            new_record(new_xml_dict[i].name, new_xml_dict[i].path, old_xml_dict,
                       df_master, old_date_display, new_date_display)]
        \o [i \in 1..Len(gone) |->
               deleted_record(gone[i].name, df_master, old_date_display)]

\* Lines 250-265: the end of the run, given new_data.
finish_run(new_data, df_master, old_date_display, new_date_display, old_report_file, old_xml_dict, new_xml_dict) ==
    LET looked_up == \E i \in 1..Len(new_data) : new_data[i].result \in {"NIL", "DELETED"}
        raised == (looked_up /\ lookup_raises(df_master)) \/ Len(new_data) = 0
    IN  [outcome |-> IF raised THEN "raised" ELSE "written",
         old_date |-> old_date_display, new_date |-> new_date_display,
         old_report_file |-> old_report_file,
         old_xml_dict |-> old_xml_dict, new_xml_dict |-> new_xml_dict,
         df_new |-> IF raised THEN <<>> ELSE sort_values(new_data),
         updated_count |-> Cardinality({i \in 1..Len(new_data) :
                                          new_data[i].result = "UPDATED"})]

\* The run of compare_and_update(report_type, ...) on the backup tree and on
\* folder, the report files of the category: how it ends (outcome), and what it
\* computed on the way.  Outcome "written" is the to_csv of line 265 reached;
\* "raised" is an exception leaving the function (the KeyError of line 218 or 243
\* on an old report with no name column, or of line 251 on an empty new_data);
\* the others are the returns of lines 152, 158, 194 and 197.
compare_and_update(report_type, backup, folder) ==
    Only({
        IF Len(date_folders) = 0 THEN Aborted("no_date_folders")
        ELSE IF Len(date_folders) < 2 THEN Aborted("one_date_folder")
        ELSE
        LET old_date_str == date_folders[Len(date_folders) - 1]
            new_date_str == date_folders[Len(date_folders)]
            backup_folder_old == find_backup_folder(old_date_str, report_type, backup)
            backup_folder_new == find_backup_folder(new_date_str, report_type, backup)
        IN  IF ~backup_folder_old.exists THEN Aborted("no_old_folder")
            ELSE IF ~backup_folder_new.exists THEN Aborted("no_new_folder")
            ELSE Only({ Only({ Only({
                     finish_run(new_data, df_master, old_date_display, new_date_display,
                                old_report_file, old_xml_dict, new_xml_dict)
                   : new_data \in {compare_folders(old_xml_dict, new_xml_dict, df_master,
                                                   old_date_display, new_date_display)} })
                   : df_master \in {load_master(folder, old_report_file)} })
                   : old_date_display \in {strftime_iso(strptime_ymd(old_date_str))},
                     new_date_display \in {strftime_iso(strptime_ymd(new_date_str))},
                     old_report_file \in {find_latest_diffreport_csv(folder)},
                     old_xml_dict \in {get_all_xml_files_from_folder(backup_folder_old)},
                     new_xml_dict \in {get_all_xml_files_from_folder(backup_folder_new)} })
      : date_folders \in {get_all_date_folders(backup)} })

\* written_folder with today's file written however the run ended.
written_folder_always(folder, res, today_weekday) ==
    [folder EXCEPT ![today_weekday] =
        to_csv([cols |-> {"Picture Name", "Last_Update_Date", "Diff_Result"},
                rows |-> res.df_new])]

\* The report folder after the run: line 265 writes today's file of the category.
written_folder(folder, res, today_weekday) ==
    IF res.outcome = "written"
    THEN [folder EXCEPT ![today_weekday] =
            to_csv([cols |-> {"Picture Name", "Last_Update_Date", "Diff_Result"},
                    rows |-> res.df_new])]
    ELSE folder

(***************************************************************************)
(* The inputs of the model.                                                *)
(***************************************************************************)
\* The name of a date folder: YYYYMMDD.
Ymd(y, m, d) == Pad(y, 4) \o Pad(m, 2) \o Pad(d, 2)
\* Dates as an older report may hold them.
Iso(y, m, d) == strftime_iso(<<y, m, d>>)
Dmy(y, m, d) == Pad(d, 2) \o <<"/">> \o Pad(m, 2) \o <<"/">> \o Pad(y, 4)

\* The listings of at most n distinct files of pool.
RECURSIVE Listings(_, _)
Listings(pool, n) ==
    IF n = 0 THEN {<<>>}
    ELSE LET shorter == Listings(pool, n - 1)
         IN  shorter \cup
             {l \in {Append(k, f) : k \in shorter, f \in pool} :
                 \A i, j \in 1..Len(l) : i < j => l[i] # l[j]}

AllColumns == {"Picture Name", "Last_Update_Date", "Diff_Result"}

\* Reports left in the report folder by earlier runs or by hand: two with ISO
\* dates, one with day/month/year dates, one with an empty and an impossible
\* date, one with the older PIC_Name header, one with no name column.
PriorIsoFirst ==
    CsvFile(AllColumns,
        << Row(<<"A">>, Iso(2024, 1, 1), "NIL"), Row(<<"Z">>, Iso(2024, 3, 1), "NEW") >>)
PriorIsoSecond ==
    CsvFile(AllColumns,
        << Row(<<"A">>, Iso(2024, 1, 3), "UPDATED"), Row(<<"B">>, Iso(2024, 1, 2), "NIL") >>)
PriorDmy ==
    CsvFile(AllColumns,
        << Row(<<"A">>, Dmy(2024, 1, 2), "NIL"), Row(<<"B">>, Dmy(2023, 12, 31), "NIL") >>)
PriorBadDates ==
    CsvFile(AllColumns,
        << Row(<<"A">>, <<>>, "NIL"), Row(<<"B">>, Iso(2024, 2, 30), "NIL"),
           Row(<<"Z">>, Iso(2024, 3, 2), "NIL") >>)
PriorPicName ==
    CsvFile({"PIC_Name", "Last_Update_Date", "Diff_Result"},
        << Row(<<"A">>, Iso(2024, 1, 4), "NIL") >>)
PriorNoNames ==
    CsvFile({"Last_Update_Date", "Diff_Result"},
        << Row(<<"A">>, Iso(2024, 1, 4), "NIL") >>)

PriorFiles ==
    {PriorIsoFirst, PriorIsoSecond, PriorDmy, PriorBadDates, PriorPicName, PriorNoNames}
TuesdayFiles == {PriorIsoSecond, PriorNoNames}

EmptyFolder == [d \in {weekdays[i] : i \in 1..Len(weekdays)} |-> NoFile]

\* The days on which the model runs.
RunDays == {"Mon", "Tue"}

\* The files of the category subfolders in Spec.
RunFiles == {1, 2, 3, 4, 6}
RunListings == Listings(RunFiles, MaxFiles)

FirstDate == Ymd(2024, 1, 5)
SecondDate == Ymd(2024, 1, 12)

(***************************************************************************)
(* One run of compare_and_update as a step: it reads the backup tree and   *)
(* the report folder and writes today's report; runs keeps, for each run,  *)
(* what it read and how it ended.                                          *)
(***************************************************************************)
Run(report_type, day) ==
    \E res \in {compare_and_update(report_type, tree, reports[report_type])} :
        /\ today' = day
        /\ reports' = [reports EXCEPT ![report_type] = written_folder(@, res, day)]
        /\ runs' = Append(runs, [report_type |-> report_type, today |-> day,
                                 before |-> reports[report_type], res |-> res])

Idle == /\ selector = "none" /\ pc = "idle"
        /\ docA = BrokenDoc /\ docB = BrokenDoc /\ cmp = "none" /\ found = "none"

(***************************************************************************)
(* Spec: compare_and_update for Composite on two date folders that do not  *)
(* change, run up to MaxReruns times, on any of RunDays, from any prior    *)
(* reports of Monday and Tuesday.                                          *)
(***************************************************************************)
Init ==
    /\ \E old_files, new_files \in RunListings :
          tree = Path(<< Item(FirstDate, TRUE, Folder(old_files), NoFolder),
                         Item(SecondDate, TRUE, Folder(new_files), NoFolder) >>)
    /\ \E mon \in PriorFiles \cup {NoFile}, tue \in TuesdayFiles \cup {NoFile} :
          reports = [c \in Categories |->
                        IF c = "Composite"
                        THEN [EmptyFolder EXCEPT !["Mon"] = mon, !["Tue"] = tue]
                        ELSE EmptyFolder]
    /\ today = "Mon"
    /\ runs = <<>>
    /\ Idle

Rerun ==
    /\ Len(runs) < MaxReruns
    /\ \E day \in RunDays : Run("Composite", day)
    /\ UNCHANGED <<tree, selector, pc, docA, docB, cmp, found>>

Next == Rerun

Spec == Init /\ [][Next]_vars

(***************************************************************************)
(* Properties of Spec.                                                     *)
(***************************************************************************)
RunIds == 1..Len(runs)
Written(r) == runs[r].res.outcome = "written"
Records(r) == {runs[r].res.df_new[i] : i \in 1..Len(runs[r].res.df_new)}
RecordNames(r) == {rec.name : rec \in Records(r)}
OldNames(r) == Keys(runs[r].res.old_xml_dict)
NewNames(r) == Keys(runs[r].res.new_xml_dict)

\* compare_xml_files on the two files an entity of both indexes has.
ComparisonOf(r, e) ==
    compare_xml_files(FilePool[Get(runs[r].res.old_xml_dict, e)].doc,
                      FilePool[Get(runs[r].res.new_xml_dict, e)].doc)

\* The class the claim gives an entity of old_index or new_index.
ExpectedResult(r, e) ==
    IF e \notin OldNames(r) THEN "NEW"
    ELSE IF e \notin NewNames(r) THEN "DELETED"
    ELSE IF ComparisonOf(r, e) = "SAME" THEN "NIL"
    ELSE "UPDATED"

\* C1: in every report a run writes, each entity of old_index or new_index has a
\* record; the record is NEW iff the entity is only in new_index, DELETED iff it is
\* only in old_index, NIL iff it is in both and compare_xml_files returns SAME,
\* UPDATED iff it is in both and compare_xml_files returns DIFFERENT; and a NEW or
\* UPDATED record carries new_date, the date of the later folder.
C1_Classification ==
    \A r \in RunIds : Written(r) =>
        /\ \A e \in OldNames(r) \cup NewNames(r) :
              \E rec \in Records(r) : rec.name = e
        /\ \A rec \in Records(r) :
              /\ rec.name \in OldNames(r) \cup NewNames(r)
              /\ rec.result = ExpectedResult(r, rec.name)
              /\ rec.result \in {"NEW", "UPDATED"} => rec.date = Iso(2024, 1, 12)

\* A written report with a NIL record (the two files differ in their Id only) and
\* an UPDATED record.
C1_Witness ==
    \E r \in RunIds : Written(r) /\
        \E nil, upd \in Records(r) : nil.result = "NIL" /\ upd.result = "UPDATED"

\* The old report a run loaded, as the file holds it; NoFile when it loaded none.
OldReport(r) ==
    IF runs[r].res.old_report_file = "None" THEN NoFile
    ELSE runs[r].before[runs[r].res.old_report_file]

\* The date field the old report holds for an entity (its first row of that name),
\* <<>> when the field is empty; NoneStr when the old report has no row for it.
OldReportDate(r, e) ==
    LET rows == OldReport(r).rows
        hits == {i \in 1..Len(rows) : rows[i].name = e}
    IN  IF hits = {} THEN NoneStr
        ELSE rows[CHOOSE i \in hits : \A j \in hits : i <= j].date

\* A date string in ISO form, read as day/month/year or as year-month-day; NoneStr
\* when it is neither.
Normalized(date_str) ==
    IF strptime_dmy(date_str) # NoDate THEN Iso(strptime_dmy(date_str)[1],
                                                 strptime_dmy(date_str)[2],
                                                 strptime_dmy(date_str)[3])
    ELSE IF strptime_iso(date_str) # NoDate THEN Iso(strptime_iso(date_str)[1],
                                                      strptime_iso(date_str)[2],
                                                      strptime_iso(date_str)[3])
    ELSE NoneStr

\* C3 (the claim as stated): a NIL or DELETED record carries the old report's date
\* for the entity, normalised to ISO, when the old report has a record for it with
\* a parseable date; otherwise (no record, or a date that is empty or unparseable)
\* it carries old_date, the date of the earlier folder, and it is never null.
C3_CarriedOrFallback ==
    \A r \in RunIds : Written(r) =>
        \A rec \in Records(r) : rec.result \in {"NIL", "DELETED"} =>
            /\ rec.date # NoneStr
            /\ rec.date = IF OldReportDate(r, rec.name) # NoneStr
                             /\ Normalized(OldReportDate(r, rec.name)) # NoneStr
                          THEN Normalized(OldReportDate(r, rec.name))
                          ELSE Iso(2024, 1, 5)

\* C7 (the claim as stated): when the old and the new folder hold identical files,
\* every run classifies every entity of both indexes as NIL and counts no UPDATED.
IdenticalFolders ==
    tree.items[1].sub["Composite"].files = tree.items[2].sub["Composite"].files

C7_Idempotence ==
    \A r \in RunIds :
        (IdenticalFolders /\ Written(r)) =>
            /\ runs[r].res.updated_count = 0
            /\ \A rec \in Records(r) :
                  rec.name \in OldNames(r) \cap NewNames(r) => rec.result = "NIL"

\* The names the old report of a run holds.
OldReportNames(r) == {OldReport(r).rows[i].name : i \in 1..Len(OldReport(r).rows)}

\* C9: a report a run writes holds exactly one record for each name of old_index
\* and new_index and no other record: no name twice, no name that contains TEMP_
\* or *, and no name that only the old report holds.
C9_OneRecordPerEntity ==
    \A r \in RunIds : Written(r) =>
        LET df_new == runs[r].res.df_new
        IN  /\ RecordNames(r) = OldNames(r) \cup NewNames(r)
            /\ \A i, j \in 1..Len(df_new) : df_new[i].name = df_new[j].name => i = j
            /\ \A rec \in Records(r) :
                  ~Contains(rec.name, TEMP_) /\ ~Contains(rec.name, STAR)
            /\ \A e \in OldReportNames(r) :
                  e \notin OldNames(r) \cup NewNames(r) => e \notin RecordNames(r)

\* A written report of a run whose new folder holds a file named with TEMP_ and
\* whose old report holds a name (Z) that neither folder has.
C9_Witness ==
    \E r \in RunIds :
        /\ Written(r)
        /\ \E i \in 1..Len(tree.items[2].sub["Composite"].files) :
              tree.items[2].sub["Composite"].files[i] = 6
        /\ <<"Z">> \in OldReportNames(r)
        /\ Len(runs[r].res.df_new) = 2

\* C10 (the claim as stated): the second of two runs on an unchanged backup tree
\* writes a report with exactly the records of the first.  It is stated for the
\* runs the null dates of C3 play no part in: both runs wrote a report and loaded
\* an old report with all its columns and with a date ISO can parse in every row.
WellFormed(file) ==
    /\ file.cols = AllColumns
    /\ \A i \in 1..Len(file.rows) : strptime_iso(file.rows[i].date) # NoDate

Doc(root_tag, id_text, link_text, value_text) ==
    ParsedDoc(Elem(root_tag, <<>>, <<>>,
        << Elem("Header", <<>>, <<"\n">>, <<Leaf("Name", <<"A">>)>>),
           Leaf("Id", id_text),
           Elem("Group", <<>>, <<>>,
               << Elem("Link", <<>>, <<>>, <<Leaf("Target", link_text)>>),
                  Leaf("Value", value_text) >>) >>))

Docs ==
    {Doc(root_tag, id_text, link_text, value_text) :
        root_tag \in {"View", "Link"}, id_text \in {<<"1">>, <<"2">>},
        link_text \in {<<"p">>, <<"q">>}, value_text \in {<<"x">>, <<"y">>}}
    \cup {BrokenDoc}

NoReports == [c \in Categories |-> EmptyFolder]

InitXml ==
    /\ docA \in Docs /\ docB \in Docs
    /\ cmp = "none"
    /\ tree = NoPath /\ reports = NoReports /\ today = "Mon"
    /\ selector = "none" /\ pc = "idle" /\ runs = <<>> /\ found = "none"

Compare ==
    /\ cmp = "none"
    /\ cmp' = compare_xml_files(docA, docB)
    /\ UNCHANGED <<tree, reports, today, selector, pc, runs, docA, docB, found>>

NextXml == Compare

SpecXml == InitXml /\ [][NextXml]_vars

\* An element with the inside of every subtree rooted at an Id or a Link blanked:
\* two documents differ only inside such subtrees iff their blanked roots are equal.
RECURSIVE Blanked(_)
Blanked(element) ==
    IF element.tag \in ignore_tags
    THEN [element EXCEPT !.attrib = "", !.text = <<>>, !.kids = <<>>]
    ELSE [element EXCEPT !.kids = [i \in 1..Len(element.kids) |-> Blanked(element.kids[i])]]

\* C8 (the claim as stated): two parseable documents that differ only inside
\* subtrees rooted at an element tagged Id or Link, at any depth, compare SAME.
C8_IdLinkIgnored ==
    (/\ cmp # "none" /\ docA.ok /\ docB.ok
     /\ Blanked(docA.root[1]) = Blanked(docB.root[1])) => cmp = "SAME"

(***************************************************************************)
(* SpecFind: find_latest_diffreport_csv applied to the Composite reports   *)
(* of Monday, Tuesday and Wednesday, each absent or one of FindFiles.      *)
(***************************************************************************)
FindIsoJanuary ==
    CsvFile(AllColumns,
        << Row(<<"A">>, Iso(2024, 1, 10), "NIL"), Row(<<"B">>, Iso(2024, 1, 25), "UPDATED") >>)
FindIsoFebruary ==
    CsvFile(AllColumns,
        << Row(<<"A">>, Iso(2024, 2, 3), "NEW"), Row(<<"B">>, Iso(2024, 1, 10), "NIL") >>)
FindDmyJanuary ==
    CsvFile(AllColumns,
        << Row(<<"A">>, Dmy(2024, 1, 15), "NIL"), Row(<<"B">>, Dmy(2024, 1, 9), "NIL") >>)
FindDmyFebruary ==
    CsvFile(AllColumns,
        << Row(<<"A">>, Dmy(2024, 1, 31), "NIL"), Row(<<"B">>, Dmy(2024, 2, 5), "UPDATED") >>)
FindNoDates ==
    CsvFile(AllColumns, << Row(<<"A">>, <<>>, "NIL") >>)

FindFiles == {FindIsoJanuary, FindIsoFebruary, FindDmyJanuary, FindDmyFebruary, FindNoDates}

InitFind ==
    /\ \E mon, tue, wed \in FindFiles \cup {NoFile} :
          reports = [NoReports EXCEPT
                        !["Composite"] = [EmptyFolder EXCEPT
                                             !["Mon"] = mon, !["Tue"] = tue, !["Wed"] = wed]]
    /\ found = "none"
    /\ tree = NoPath /\ today = "Mon" /\ selector = "none" /\ pc = "idle" /\ runs = <<>>
    /\ docA = BrokenDoc /\ docB = BrokenDoc /\ cmp = "none"

FindLatest ==
    /\ found = "none"
    /\ found' = find_latest_diffreport_csv(reports["Composite"])
    /\ UNCHANGED <<tree, reports, today, selector, pc, runs, docA, docB, cmp>>

NextFind == FindLatest

SpecFind == InitFind /\ [][NextFind]_vars

\* The calendar dates a file records, each read in the format it has.
RecordedDates(file) ==
    {d \in {IF strptime_dmy(file.rows[i].date) # NoDate
            THEN strptime_dmy(file.rows[i].date)
            ELSE strptime_iso(file.rows[i].date) : i \in 1..Len(file.rows)} : d # NoDate}

\* The files of the Composite folder with a recorded date.
DatedDays ==
    {weekdays[i] : i \in {k \in 1..Len(weekdays) :
        RecordedDates(reports["Composite"][weekdays[k]]) # {}}}

\* The latest of a set of dates.
Latest(dates) == CHOOSE d \in dates : \A e \in dates : ~DateGreater(e, d)

\* C4 (the claim as stated): find_latest_diffreport_csv returns a file whose
\* latest recorded calendar date is the most recent of all the files, and returns
\* none only when no file records a date.
C4_MostRecentMaxDate ==
    found # "none" =>
        IF DatedDays = {} THEN found = "None"
        ELSE /\ found \in DatedDays
             /\ \A day \in DatedDays :
                   ~DateGreater(Latest(RecordedDates(reports["Composite"][day])),
                                Latest(RecordedDates(reports["Composite"][found])))

(***************************************************************************)
(* SpecMain: __main__ from the validation of backup_path on.  The backup   *)
(* tree holds, besides its date folders, a file with a date for a name, a  *)
(* directory named with an impossible date and the DiffReport directory.   *)
(***************************************************************************)
MainComposite == {NoFolder, Folder(<<>>), Folder(<<1>>), Folder(<<3>>)}
MainSubstation == {NoFolder, Folder(<<1>>)}

MainTrees ==
    LET file_item == Item(Ymd(2024, 1, 19), FALSE, NoFolder, NoFolder)
        bad_date == Item(Ymd(2024, 13, 1), TRUE, Folder(<<1>>), Folder(<<1>>))
        diffreport == Item(<<"D", "i", "f", "f", "R", "e", "p", "o", "r", "t">>,
                           TRUE, NoFolder, NoFolder)
        second_items ==
            {Item(SecondDate, TRUE, c, s) : c \in MainComposite, s \in MainSubstation}
        first_items ==
            {Item(FirstDate, TRUE, c, s) : c \in MainComposite, s \in MainSubstation}
    IN  {NoPath, Path(<<file_item, bad_date, diffreport>>)}
        \cup {Path(<<file_item, new, bad_date, diffreport>>) : new \in second_items}
        \cup {Path(<<file_item, new, bad_date, old, diffreport>>) :
                 new \in second_items, old \in first_items}

InitMain ==
    /\ tree \in MainTrees
    /\ \E composite \in {NoFile, PriorIsoFirst, PriorNoNames},
          substation \in {NoFile, PriorIsoSecond} :
          reports = [c \in Categories |->
                        [EmptyFolder EXCEPT
                            !["Mon"] = IF c = "Composite" THEN composite ELSE substation]]
    /\ today \in RunDays
    /\ selector \in {"composite", "substation", "both"}
    /\ pc = "validate"
    /\ runs = <<>>
    /\ docA = BrokenDoc /\ docB = BrokenDoc /\ cmp = "none" /\ found = "none"

\* Lines 406-415: sys.exit(1) when backup_path does not exist.
ValidatePaths ==
    /\ pc = "validate"
    /\ pc' = IF ~tree.exists THEN "exit" ELSE "composite"
    /\ UNCHANGED <<tree, reports, today, selector, runs, docA, docB, cmp, found>>

\* One of the two calls of lines 416-419: made when report_type asks for it; an
\* exception that leaves compare_and_update ends the program there.
Call(report_type, wanted, then) ==
    /\ IF selector \in wanted
       THEN /\ Run(report_type, today)
            /\ pc' = IF runs'[Len(runs')].res.outcome = "raised" THEN "crashed" ELSE then
       ELSE /\ pc' = then
            /\ UNCHANGED <<reports, today, runs>>
    /\ UNCHANGED <<tree, selector, docA, docB, cmp, found>>

CallComposite ==
    /\ pc = "composite"
    /\ Call("Composite", {"composite", "both"}, "substation")

CallSubstation ==
    /\ pc = "substation"
    /\ Call("Substation", {"substation", "both"}, "done")

NextMain == ValidatePaths \/ CallComposite \/ CallSubstation

SpecMain == InitMain /\ [][NextMain]_vars

\* The returns of lines 152, 158, 194 and 197.
FatalOutcomes == {"no_date_folders", "one_date_folder", "no_old_folder", "no_new_folder"}

\* C5: a run of compare_and_update that fails a fatal precondition (fewer than two
\* qualifying date folders, or no category subfolder under the old or the new date
\* folder) leaves every report file as it was, and the program goes on to the call
\* of the other category.
C5_FatalWritesNothing ==
    [][(Len(runs') = Len(runs) + 1 /\ runs'[Len(runs')].res.outcome \in FatalOutcomes) =>
          /\ reports' = reports
          /\ pc' = IF pc = "composite" THEN "substation" ELSE "done"]_vars

\* With report type both, the Composite run failed a fatal precondition where a
\* Composite report existed, and the Substation run wrote its report.
C5_Witness ==
    /\ pc = "done" /\ selector = "both" /\ Len(runs) = 2
    /\ runs[1].res.outcome \in FatalOutcomes
    /\ runs[1].before["Mon"].exists
    /\ runs[2].res.outcome = "written"

\* C6 (the claim as stated): every run of compare_and_update ends by writing its
\* report or by returning on a fatal precondition, no exception leaves it, and with
\* report type both the program does not end before the Substation run.
C6_CompletesOrAborts ==
    /\ \A r \in RunIds : runs[r].res.outcome \in FatalOutcomes \cup {"written"}
    /\ pc # "crashed"
    /\ (selector = "both" /\ pc \notin {"validate", "composite", "substation", "exit"}) =>
          \E r \in RunIds : runs[r].report_type = "Substation"

(***************************************************************************)
(* SpecHistory: the life of a report folder that starts empty.  Each run   *)
(* of compare_and_update for Composite, on any of HistDays, compares the   *)
(* two latest date folders; a new date folder arrives between two runs.    *)
(***************************************************************************)
HistDays == {"Mon", "Tue", "Wed"}

\* What a Composite subfolder holds: nothing, the entity A (file 1, or file 3
\* with another text), the entity named NA (file 5), or both.
HistListings == {<<>>, <<1>>, <<3>>, <<5>>, <<1, 5>>, <<3, 5>>}

\* The name of the k-th date folder.
HistDate(k) == Ymd(2024, k, 5)

InitHistory ==
    /\ \E old_files, new_files \in HistListings :
          tree = Path(<< Item(HistDate(1), TRUE, Folder(old_files), NoFolder),
                         Item(HistDate(2), TRUE, Folder(new_files), NoFolder) >>)
    /\ reports = NoReports
    /\ today = "Mon"
    /\ runs = <<>>
    /\ Idle

\* A run on the two latest date folders, once a folder has arrived since the last.
ScheduledRun ==
    /\ Len(runs) < MaxRuns
    /\ Len(tree.items) = Len(runs) + 2
    /\ \E day \in HistDays : Run("Composite", day)
    /\ UNCHANGED <<tree, selector, pc, docA, docB, cmp, found>>

\* The backup of the next date arrives.
AddFolder ==
    /\ Len(runs) < MaxRuns
    /\ Len(tree.items) = Len(runs) + 1
    /\ \E files \in HistListings :
          tree' = Path(Append(tree.items,
                     Item(HistDate(Len(tree.items) + 1), TRUE, Folder(files), NoFolder)))
    /\ UNCHANGED <<reports, today, selector, pc, runs, docA, docB, cmp, found>>

NextHistory == ScheduledRun \/ AddFolder

SpecHistory == InitHistory /\ [][NextHistory]_vars

\* C2 (the claim as stated): over three consecutive runs, an entity a run
\* classifies NIL keeps the Last_Update_Date the report of the run before holds
\* for it (the date of the run in which it last changed or first appeared; the
\* old snapshot date when the first run finds it unchanged), and never the
\* new_date of the run that classifies it NIL.
C2_CarryForward ==
    \A r \in RunIds : Written(r) =>
        \A rec \in Records(r) : rec.result = "NIL" =>
            /\ rec.date # runs[r].res.new_date
            /\ r = 1 => rec.date = runs[r].res.old_date
            /\ (r > 1 /\ Written(r - 1)) =>
                  \A prev \in Records(r - 1) : prev.name = rec.name => rec.date = prev.date

====
